---- MODULE Spec2Model ----
(***************************************************************************)
(* Model of the chat front end of infra-ai-assistant.                       *)
(*                                                                         *)
(* The repository holds two ChatComponent classes:                         *)
(*   "agent"     src/unnamed/part_000: one input box routed to four        *)
(*               backend operations (query, compare, config, troubleshoot),*)
(*               a welcome message pushed by ngOnInit;                     *)
(*   "dashboard" src/frontend/.../chat/chat.component.ts: query only,      *)
(*               with the dashboard counters and the upload panel.         *)
(* One behaviour of the model runs one of them (variable component).       *)
(*                                                                         *)
(* Texts are sequences of one-character strings; a message content is a    *)
(* sequence of strings, so that string concatenation is \o.                *)
(* Not modelled: timestamps, the scroll flag and DOM sizing, which no      *)
(* handler reads back.                                                     *)
(***************************************************************************)
EXTENDS Integers, Sequences, FiniteSets, TLC

VARIABLES
  component,    \* which ChatComponent class this behaviour runs
  profile,      \* bounding profile of the behaviour:
                \*   "wide" rich inputs, short transcripts
                \*   "deep" plain inputs, transcripts longer than the context window
                \*   "live" plain inputs, short transcripts
  messages,     \* this.messages
  inputText,    \* this.inputText
  isLoading,    \* this.isLoading
  sessionId,    \* this.sessionId
  agentMode,    \* this.agentMode (agent component)
  totalQueries, \* this.totalQueries (dashboard component)
  inflight,     \* HTTP requests subscribed to and not yet answered
  accepted,     \* history: texts of the accepted submits since the last clearChat
  lastSid,      \* history: session id of the latest successful query or troubleshoot
                \*          response since the last clearChat, Undefined when none
  lastOp,       \* history: the handler that ran last and what it was given
  items,        \* the UploadItem objects ever created, by creation number
  uploads,      \* this.uploads: the creation numbers of the items in the panel
  uploadCalls,  \* upload calls subscribed to and not yet answered
  issued,       \* history: the item of every upload call ever issued, in order
  store,        \* the documents the stub backend holds
  documents,    \* this.documents
  totalDocs,    \* this.totalDocs
  totalChunks,  \* this.totalChunks
  health,       \* this.health
  docFetches,   \* GET /documents calls not yet answered, oldest first
  healthPending,    \* number of GET /health calls not yet answered
  analyticsPending, \* number of GET /analytics calls not yet answered
  deleteCalls,  \* DELETE calls subscribed to and not yet answered
  deletesIssued, \* history: number of DELETE calls ever issued
  refetched,    \* history: the pairs deleted whose re-fetch has been answered
  msgContent,   \* msg.content, which the template calls formatContent with
  html          \* what formatContent returned for it

\* the upload panel, the dashboard counters and the stub backend behind them
uploadVars == <<items, uploads, uploadCalls, issued, store, documents, totalDocs,
                totalChunks, health, docFetches, healthPending, analyticsPending,
                deleteCalls, deletesIssued, refetched>>

\* one call of the renderer
renderVars == <<msgContent, html>>

vars == <<component, profile, messages, inputText, isLoading, sessionId, agentMode,
          totalQueries, inflight, accepted, lastSid, lastOp, uploadVars, renderVars>>

----------------------------------------------------------------------------
(* Bounds *)

MaxMsgsWide == 4
MaxMsgsDeep == 12
MaxQueriesWide == 2
MaxQueriesDeep == 6

MaxMsgsLive == 4
MaxMsgsVendors == 2
MaxWordsVendors == 2
MaxQueriesLive == 2
MaxFilesPanel == 3
MaxFilesDocs == 1
MaxFilesAwait == 3
MaxFilesMixed == 1
MaxMsgsMixed == 2
MaxQueriesMixed == 2
MaxFetchesDocs == 2
MaxDeletesDocs == 1
MaxPiecesEscape == 4
MaxPiecesCleanup == 5
MaxPiecesFence == 5

Rich == profile = "wide"

MaxMsgs ==
  CASE profile = "wide" -> MaxMsgsWide
    [] profile = "deep" -> MaxMsgsDeep
    [] profile = "vendors" -> MaxMsgsVendors
    [] profile = "mixed" -> MaxMsgsMixed
    [] OTHER -> MaxMsgsLive
MaxQueries ==
  CASE profile = "wide" -> MaxQueriesWide
    [] profile = "deep" -> MaxQueriesDeep
    [] profile = "mixed" -> MaxQueriesMixed
    [] OTHER -> MaxQueriesLive

----------------------------------------------------------------------------
(* JavaScript values *)

\* undefined: an absent field or an unset variable
Undefined == "<undefined>"

\* a || b
Or(a, b) == IF a # Undefined /\ a # "" THEN a ELSE b

\* string + v: undefined is written out as the text "undefined"
Str(v) == IF v = Undefined THEN "undefined" ELSE v

Min(a, b) == IF a < b THEN a ELSE b
Max(a, b) == IF a > b THEN a ELSE b

\* Array.prototype.slice(k) for k < 0: the last -k elements
SliceLast(s, k) == SubSeq(s, Max(Len(s) - k, 0) + 1, Len(s))

Whitespace == {" "}

RECURSIVE TrimStart(_)
TrimStart(t) == IF t # <<>> /\ Head(t) \in Whitespace THEN TrimStart(Tail(t)) ELSE t

RECURSIVE TrimEnd(_)
TrimEnd(t) ==
  IF t # <<>> /\ t[Len(t)] \in Whitespace THEN TrimEnd(SubSeq(t, 1, Len(t) - 1)) ELSE t

\* String.prototype.trim
Trim(t) == TrimEnd(TrimStart(t))

UpperLetters ==
  <<"A", "B", "C", "D", "E", "F", "G", "H", "I", "J", "K", "L", "M",
    "N", "O", "P", "Q", "R", "S", "T", "U", "V", "W", "X", "Y", "Z">>
LowerLetters ==
  <<"a", "b", "c", "d", "e", "f", "g", "h", "i", "j", "k", "l", "m",
    "n", "o", "p", "q", "r", "s", "t", "u", "v", "w", "x", "y", "z">>
Lower ==
  [c \in {UpperLetters[i] : i \in DOMAIN UpperLetters} |->
     LowerLetters[CHOOSE i \in DOMAIN UpperLetters : UpperLetters[i] = c]]

\* String.prototype.toLowerCase, over the letters the model's texts use
ToLowerCase(t) == [i \in DOMAIN t |-> IF t[i] \in DOMAIN Lower THEN Lower[t[i]] ELSE t[i]]

\* String.prototype.includes
Includes(t, w) == \E i \in 0..(Len(t) - Len(w)) : SubSeq(t, i + 1, i + Len(w)) = w

\* String.prototype.split(sep) for a one-character separator
RECURSIVE Split(_, _)
Split(t, sep) ==
  IF \E i \in DOMAIN t : t[i] = sep
  THEN LET i == CHOOSE k \in DOMAIN t : t[k] = sep /\ \A j \in 1..(k - 1) : t[j] # sep
       IN  <<SubSeq(t, 1, i - 1)>> \o Split(SubSeq(t, i + 1, Len(t)), sep)
  ELSE <<t>>

----------------------------------------------------------------------------
(* Program constants *)

TopK == 5
WindowSize == 10

WelcomeText == <<"Welcome to the IT Infrastructure Assistant! ...">>
WelcomeMessage == [role |-> "assistant", content |-> WelcomeText]

\* the leading cross mark of the source is written (x)
AgentErrorPrefix == "(x) Error: "
AgentQueryFallback == "Unknown error"
DashboardErrorPrefix == "(x) "
DashboardFallback == "Something went wrong."

Cisco == <<"C", "i", "s", "c", "o">>
Juniper == <<"J", "u", "n", "i", "p", "e", "r">>
Fortinet == <<"F", "o", "r", "t", "i", "n", "e", "t">>
Dell == <<"D", "e", "l", "l">>
IBM == <<"I", "B", "M">>
FortiGate == <<"F", "o", "r", "t", "i", "G", "a", "t", "e">>
FortiWeb == <<"F", "o", "r", "t", "i", "W", "e", "b">>

KnownVendors == <<Cisco, Juniper, Fortinet, Dell, IBM, FortiGate, FortiWeb>>
DefaultVendors == <<Cisco, Juniper>>

Modes == {"query", "compare", "config", "troubleshoot"}

----------------------------------------------------------------------------
(* Inputs: what the user types and what the stub backend answers *)

\* the modes the user selects among
ModesOffered ==
  CASE profile = "deep" -> {"query", "troubleshoot"}
    [] profile = "vendors" -> {"query", "compare"}
    [] OTHER -> Modes

\* words a question about vendors is made of: names of the vocabulary in
\* other case
Words ==
  {<<"i", "B", "m">>, <<"D", "E", "L", "L">>,
   <<"F", "o", "r", "t", "i", "W", "E", "B">>}

RECURSIVE Join(_)
Join(ws) == IF ws = <<>> THEN <<>> ELSE Head(ws) \o Join(Tail(ws))

Phrases == {Join(ws) : ws \in UNION {[1..n -> Words] : n \in 0..MaxWordsVendors}}

Texts ==
  CASE Rich -> {<<>>, <<" ">>, <<"a">>, <<" ", "b", " ">>}
    [] profile = "vendors" -> Phrases
    [] OTHER -> {<<>>, <<"a">>}

\* compareVendors, compareTopic and configVendor are written by the template's
\* two-way binding only; their value at a call is an input of the call
CompareVendorsInputs ==
  CASE Rich -> {<<>>, Dell \o <<",", " ">> \o IBM}
    [] profile = "vendors" -> {<<>>, Dell}
    [] OTHER -> {<<>>}
CompareTopicInputs == IF Rich THEN {<<>>, <<"v", "p", "n">>} ELSE {<<>>}
ConfigVendorInputs == IF Rich THEN {<<>>, Dell} ELSE {<<>>}

Source1 == [vendor |-> "Cisco", document |-> "guide.pdf"]

\* the answers of the stub backend: per endpoint one answer, and with rich inputs
\* a second one that differs in every field
QueryResponses ==
  {[answer |-> <<"r1">>, sources |-> <<>>, session_id |-> "S1"]}
  \cup IF Rich
       THEN {[answer |-> <<"r2">>, sources |-> <<Source1>>, session_id |-> "S2"]}
       ELSE {}
CompareResponses ==
  {[comparison |-> <<"r1">>, sources |-> <<>>]}
  \cup IF Rich THEN {[comparison |-> <<"r2">>, sources |-> <<Source1>>]} ELSE {}
ConfigGenResponses ==
  {[config |-> <<"r1">>, sources |-> <<>>]}
  \cup IF Rich THEN {[config |-> <<"r2">>, sources |-> <<Source1>>]} ELSE {}
TroubleshootResponses ==
  {[diagnosis |-> <<"r1">>, sources |-> <<>>, session_id |-> "S1"]}
  \cup IF Rich
       THEN {[diagnosis |-> <<"r2">>, sources |-> <<Source1>>, session_id |-> "S2"]}
       ELSE {}

\* An HttpErrorResponse as the handlers read it: detail stands for err.error?.detail
\* (Undefined when the body or the field is absent), message for err.message
Errors ==
  IF Rich THEN [detail : {Undefined, "d"}, message : {Undefined, "m"}]
  ELSE [detail : {Undefined}, message : {"m"}]

----------------------------------------------------------------------------
(* Helpers of the handlers *)

\* the argument of a handler that takes none
NoArg == [none |-> TRUE]

\* a value of lastOp: the handler that ran and the response or error it was given
Op(name, arg) == [op |-> name, arg |-> arg]

\* mutant: unshift, the new element put first
Push_Front(msgs, m) == <<m>> \o msgs

\* Array.prototype.push
Push(msgs, m) == Append(msgs, m)

\* undefined where a text is expected
UndefinedText == <<Undefined>>

\* a || b over texts: the empty string is falsy
OrText(a, b) == IF a # <<>> THEN a ELSE b

UserMessage(text) == [role |-> "user", content |-> text]
AssistantMessage(content, sources) ==
  [role |-> "assistant", content |-> content, sources |-> sources]
ErrorMessage(content) == [role |-> "assistant", content |-> content]

\* mutant: slice(0, 10), the first entries instead of the last
ContextWindow_First(msgs) ==
  LET kept == SelectSeq(msgs, LAMBDA m : m.role = "user" \/ m.role = "assistant")
      first == SubSeq(kept, 1, Min(Len(kept), WindowSize))
  IN  [i \in DOMAIN first |-> [role |-> first[i].role, content |-> first[i].content]]

\* messages.filter(user or assistant).slice(-10).map({role, content})
ContextWindow(msgs) ==
  LET kept == SelectSeq(msgs, LAMBDA m : m.role = "user" \/ m.role = "assistant")
      last == SliceLast(kept, WindowSize)
  IN  [i \in DOMAIN last |-> [role |-> last[i].role, content |-> last[i].content]]

\* mutant: the text is searched as it was typed
ExtractVendors_CaseSensitive(text) ==
  LET found == SelectSeq(KnownVendors, LAMBDA v : Includes(text, v))
  IN  IF Len(found) >= 2 THEN found ELSE DefaultVendors

\* extractVendors(text)
ExtractVendors(text) ==
  LET found == SelectSeq(KnownVendors,
                         LAMBDA v : Includes(ToLowerCase(text), ToLowerCase(v)))
  IN  IF Len(found) >= 2 THEN found ELSE DefaultVendors

\* compareVendors.split(',').map(v => v.trim())
SplitVendors(field) ==
  LET parts == Split(field, ",") IN [i \in DOMAIN parts |-> Trim(parts[i])]

\* '(x) Error: ' + (err.error?.detail || err.message || 'Unknown error')
QueryErrorText(err) ==
  <<AgentErrorPrefix, Str(Or(Or(err.detail, err.message), AgentQueryFallback))>>

\* '(x) Error: ' + (err.error?.detail || err.message)
AgentErrorText(err) == <<AgentErrorPrefix, Str(Or(err.detail, err.message))>>

\* '(x) ' + (err.error?.detail || err.message || 'Something went wrong.')
DashboardErrorText(err) ==
  <<DashboardErrorPrefix, Str(Or(Or(err.detail, err.message), DashboardFallback))>>

\* the request objects handed to ApiService; endpoint names the method called
QueryRequest(text) ==
  [endpoint |-> "query",
   body |-> [question |-> text, session_id |-> sessionId, top_k |-> TopK,
             conversation_history |-> ContextWindow(Append(messages, UserMessage(text)))]]

CompareRequest(text, compareVendors, compareTopic) ==
  [endpoint |-> "compare",
   body |-> [vendors |-> IF compareVendors # <<>> THEN SplitVendors(compareVendors)
                         ELSE ExtractVendors(text),
             topic |-> OrText(compareTopic, text), top_k |-> TopK]]

ConfigGenRequest(text, configVendor) ==
  [endpoint |-> "config-gen",
   body |-> [request |-> text, vendor |-> OrText(configVendor, UndefinedText),
             top_k |-> TopK]]

\* mutant: the stored session id is not sent
TroubleshootRequest_NoSession(text) ==
  [endpoint |-> "troubleshoot",
   body |-> [problem |-> text, session_id |-> Undefined, top_k |-> TopK,
             conversation_history |-> ContextWindow(Append(messages, UserMessage(text)))]]

TroubleshootRequest(text) ==
  [endpoint |-> "troubleshoot",
   body |-> [problem |-> text, session_id |-> sessionId, top_k |-> TopK,
             conversation_history |-> ContextWindow(Append(messages, UserMessage(text)))]]

\* inflight without its i-th request
Answered(i) == SubSeq(inflight, 1, i - 1) \o SubSeq(inflight, i + 1, Len(inflight))

----------------------------------------------------------------------------
(* The upload panel and the document list of the dashboard *)

\* file names a user may drop; the last one has no dot at all
NotesTxt == <<"n", ".", "t", "x", "t">>
GuidePdf == <<"g", ".", "p", "d", "f">>
ManualHTM == <<"m", ".", "H", "T", "M">>
BarePdf == <<"p", "d", "f">>
FileNames ==
  CASE profile = "panel" -> {NotesTxt, ManualHTM, BarePdf}
    [] profile = "await" -> {NotesTxt, GuidePdf}
    [] OTHER -> {GuidePdf}

\* the FileList of one drop or one file dialog: at most as many files as the
\* panel may still take
FileLists(room) ==
  UNION {[1..n -> FileNames] : n \in 1..room}

MaxFiles ==
  CASE profile = "panel" -> MaxFilesPanel
    [] profile = "await" -> MaxFilesAwait
    [] profile = "mixed" -> MaxFilesMixed
    [] OTHER -> MaxFilesDocs
\* in the panel profile no refresh is answered: one per file and the first one
MaxFetches ==
  CASE profile = "panel" -> MaxFilesPanel + 1
    [] profile = "await" -> MaxFilesAwait + 1
    [] profile = "mixed" -> MaxFilesMixed + 1
    [] OTHER -> MaxFetchesDocs
MaxDeletes == IF profile \in {"panel", "await", "mixed"} THEN 0 ELSE MaxDeletesDocs

\* ['pdf', 'html', 'htm']
SupportedFormats == {<<"p", "d", "f">>, <<"h", "t", "m", "l">>, <<"h", "t", "m">>}

\* file.name.split('.').pop()?.toLowerCase(): a name without a dot is one part,
\* and pop() returns the whole name
Extension(name) ==
  LET parts == Split(name, ".") IN ToLowerCase(parts[Len(parts)])

\* the suffix after the last dot of a name, absent when the name has no dot
Suffix(name) ==
  IF \E i \in DOMAIN name : name[i] = "."
  THEN LET parts == Split(name, ".") IN ToLowerCase(parts[Len(parts)])
  ELSE UndefinedText

\* ['pdf', 'html', 'htm'].includes(ext || '')
Supported(name) == OrText(Extension(name), <<>>) \in SupportedFormats

\* chunks_added of an upload response
ChunksAdded == {2}

\* the HttpErrorResponse of a failed upload: detail of the backend's body and
\* the transport's message
UploadErrors ==
  IF profile = "panel"
  THEN {[detail |-> Undefined, message |-> "m"], [detail |-> "d", message |-> "m"]}
  ELSE {[detail |-> Undefined, message |-> "m"]}

UploadFallback == "Upload failed"

\* mutant: the error text of the chat, detail || message || fallback
UploadErrorText_AsChat(err) == <<Str(Or(Or(err.detail, err.message), UploadFallback))>>

\* err.error?.detail || 'Upload failed'
UploadErrorText(err) == <<Str(Or(err.detail, UploadFallback))>>

\* `${res.chunks_added} chunks indexed`
IndexedText(n) == <<ToString(n), " chunks indexed">>

\* the item pushed for a file of an unsupported format
RejectedItem(name) ==
  [name |-> name, status |-> "error", msg |-> <<"Unsupported format">>, chunks |-> 0]

\* the item pushed for a file that is uploaded
UploadingItem(name) ==
  [name |-> name, status |-> "uploading", msg |-> <<"Indexing...">>, chunks |-> 0]

\* Array.prototype.unshift
Unshift(list, x) == <<x>> \o list

\* mutant: shift(), the first row removed whatever i is
Splice_First(list, i) == Tail(list)

\* Array.prototype.splice(i, 1) for a 0-based i: beyond the end nothing is removed
Splice(list, i) ==
  IF i + 1 \in DOMAIN list
  THEN SubSeq(list, 1, i) \o SubSeq(list, i + 2, Len(list))
  ELSE list

\* a sequence without its k-th element (1-based)
Without(s, k) == SubSeq(s, 1, k - 1) \o SubSeq(s, k + 1, Len(s))

\* the empty vendor every upload of the dashboard is sent with
NoVendor == <<>>

\* the upload call of uploadOne
UploadRequest(id, name) == [item |-> id, file |-> name, vendor |-> NoVendor]

\* the document the stub backend holds when the page opens: one that was
\* uploaded from the dashboard before
StoredGuide ==
  [vendor |-> NoVendor, document |-> GuidePdf, chunk_count |-> 4, page_count |-> 1]
InitialStore == <<StoredGuide>>

\* the stub backend indexes an uploaded file: a document of that vendor and
\* name is replaced, otherwise the new one is added last
RECURSIVE Keep(_, _, _)
Keep(docs, vendor, document) ==
  IF docs = <<>> THEN <<>>
  ELSE IF docs[1].vendor = vendor /\ docs[1].document = document
       THEN Keep(Tail(docs), vendor, document)
       ELSE <<docs[1]>> \o Keep(Tail(docs), vendor, document)

Indexed(docs, name, n) ==
  Append(Keep(docs, NoVendor, name),
         [vendor |-> NoVendor, document |-> name, chunk_count |-> n, page_count |-> 1])

Holds(docs, vendor, document) ==
  \E i \in DOMAIN docs : docs[i].vendor = vendor /\ docs[i].document = document

RECURSIVE SumChunks(_)
SumChunks(docs) ==
  IF docs = <<>> THEN 0 ELSE docs[1].chunk_count + SumChunks(Tail(docs))

\* the DocumentListResponse the stub backend gives for its documents
DocumentList(docs) == [documents |-> docs, total_chunks |-> SumChunks(docs)]

\* a GET /documents call: unanswered until the backend has served it, and then
\* carrying the list of the moment it was served
Unserved == [served |-> FALSE, body |-> DocumentList(<<>>)]
Served(docs) == [served |-> TRUE, body |-> DocumentList(docs)]

\* what a refresh was called by: kept with its GET /documents call
ByUpload(id) == [by |-> "uploadOne", item |-> id, vendor |-> NoVendor, document |-> <<>>]
ByDelete(call) ==
  [by |-> "deleteDocument", item |-> 0, vendor |-> call.vendor, document |-> call.document]
ByInit == [by |-> "ngOnInit", item |-> 0, vendor |-> NoVendor, document |-> <<>>]

\* a (vendor, document) pair, the key of a document
Pair(vendor, document) == [vendor |-> vendor, document |-> document]

\* the DELETE call for a document
DeleteRequest(doc) == Pair(doc.vendor, doc.document)

\* the pair a refresh was called for
PairOf(cause) == Pair(cause.vendor, cause.document)

Fetch(call, cause) == [served |-> call.served, body |-> call.body, cause |-> cause]

NoHealth == "null"
Healthy == "healthy"

\* total_queries of the analytics response
ReportedQueries == 1

----------------------------------------------------------------------------
(* The renderer: formatContent and esc *)

\* The text under way is a sequence of tokens: a character of the content, an
\* entity that esc wrote for one, or a tag that a pass wrote. A tag holds no
\* backtick, star or line break and starts with '<', an entity starts with '&',
\* so no pattern of a later pass can begin or end inside one.
Ch(c) == [k |-> "ch", v |-> c, arg |-> <<>>]
Ent(e) == [k |-> "ent", v |-> e, arg |-> <<>>]
Tag(t, arg) == [k |-> "tag", v |-> t, arg |-> arg]

\* the entity esc writes for each of the five characters
Entity ==
  [c \in {"&", "<", ">", "\"", "'"} |->
     CASE c = "&" -> "&amp;" [] c = "<" -> "&lt;" [] c = ">" -> "&gt;"
       [] c = "\"" -> "&quot;" [] c = "'" -> "&#039;"]

\* mutant: esc that lets '<' through
Esc_KeepsLt(t) ==
  [i \in DOMAIN t |-> IF t[i] \in DOMAIN Entity \ {"<"} THEN Ent(Entity[t[i]]) ELSE Ch(t[i])]

\* esc(t): every one of the five characters replaced by its entity
Esc(t) ==
  [i \in DOMAIN t |-> IF t[i] \in DOMAIN Entity THEN Ent(Entity[t[i]]) ELSE Ch(t[i])]

Nl == Ch("\n")
\* the character U+0060, which a TLA+ string cannot hold, goes by its name
BacktickChar == "backtick"
Backtick == Ch(BacktickChar)
Star == Ch("*")

H4Open == Tag("<h4 class=\"md-h4\">", <<>>)
H4Close == Tag("</h4>", <<>>)
H3Open == Tag("<h3 class=\"md-h3\">", <<>>)
H3Close == Tag("</h3>", <<>>)
PreOpen(lang) == Tag("<pre class=\"code-block\"><code class=\"lang-$1\">", lang)
PreClose == Tag("</code></pre>", <<>>)
CodeOpen == Tag("<code class=\"ic\">", <<>>)
CodeClose == Tag("</code>", <<>>)
StrongOpen == Tag("<strong>", <<>>)
StrongClose == Tag("</strong>", <<>>)
EmOpen == Tag("<em>", <<>>)
EmClose == Tag("</em>", <<>>)
OlItemOpen(n) == Tag("<li class=\"ol-item\" value=\"$1\">", n)
LiOpen == Tag("<li>", <<>>)
LiClose == Tag("</li>", <<>>)
UlOpen == Tag("<ul class=\"md-list\">", <<>>)
UlClose == Tag("</ul>", <<>>)
Br == Tag("<br>", <<>>)

\* word characters and digits, of the characters the contents are written with
WordChars == {"a", "1"}
Digits == {"1"}
IsWord(tok) == tok.k = "ch" /\ tok.v \in WordChars
IsDigit(tok) == tok.k = "ch" /\ tok.v \in Digits

\* the length of the longest prefix of h whose tokens all satisfy P
Run(h, P(_)) ==
  LET stops == {i \in DOMAIN h : ~P(h[i])}
  IN  IF stops = {} THEN Len(h) ELSE (CHOOSE i \in stops : \A o \in stops : i <= o) - 1

\* the first position, from the given one on, where pattern pat stands in h, or 0
First(h, pat, from) ==
  LET at == {j \in from..(Len(h) - Len(pat) + 1) : SubSeq(h, j, j + Len(pat) - 1) = pat}
  IN  IF at = {} THEN 0 ELSE CHOOSE j \in at : \A o \in at : j <= o

Drop(h, n) == SubSeq(h, n + 1, Len(h))

\* the lines of a text and the text of lines, for patterns with the m flag
RECURSIVE Unlines(_)
Unlines(ls) ==
  IF Len(ls) = 1 THEN ls[1] ELSE ls[1] \o <<Nl>> \o Unlines(Tail(ls))

EachLine(h, F(_)) ==
  LET ls == Split(h, Nl) IN Unlines([i \in DOMAIN ls |-> F(ls[i])])

\* a line of marks and a text: the text put between open and close
Marked(line, marks, open, close) ==
  IF Len(line) > Len(marks) /\ SubSeq(line, 1, Len(marks)) = marks
  THEN <<open>> \o Drop(line, Len(marks)) \o <<close>>
  ELSE line

Hashes3 == <<Ch("#"), Ch("#"), Ch("#"), Ch(" ")>>
Hashes2 == <<Ch("#"), Ch("#"), Ch(" ")>>
Dash == <<Ch("-"), Ch(" ")>>

\* formatContent, first replace: a line of three hashes, a blank and a text
H4Line(line) == Marked(line, Hashes3, H4Open, H4Close)
Headings4(h) == EachLine(h, H4Line)

\* formatContent, second replace: a line of two hashes, a blank and a text
H3Line(line) == Marked(line, Hashes2, H3Open, H3Close)
Headings3(h) == EachLine(h, H3Line)

Fence == <<Backtick, Backtick, Backtick>>

\* the fence pattern at the start of h: three backticks, word characters, a
\* line break, the shortest body, three backticks; the length of the match,
\* the language and the body, or length 0
FenceAt(h) ==
  IF Len(h) >= 3 /\ SubSeq(h, 1, 3) = Fence
  THEN LET w == Run(Drop(h, 3), IsWord)
           close == First(h, Fence, w + 5)
       IN  IF Len(h) >= w + 4 /\ h[w + 4] = Nl /\ close # 0
           THEN [len |-> close + 2, lang |-> SubSeq(h, 4, w + 3),
                 body |-> SubSeq(h, w + 5, close - 1)]
           ELSE [len |-> 0, lang |-> <<>>, body |-> <<>>]
  ELSE [len |-> 0, lang |-> <<>>, body |-> <<>>]

\* formatContent, third replace: every fence, left to right
RECURSIVE CodeBlocks(_)
CodeBlocks(h) ==
  IF h = <<>> THEN <<>>
  ELSE LET m == FenceAt(h) IN
       IF m.len > 0
       THEN <<PreOpen(m.lang)>> \o m.body \o <<PreClose>> \o CodeBlocks(Drop(h, m.len))
       ELSE <<h[1]>> \o CodeBlocks(Tail(h))

NotBacktick(tok) == tok # Backtick

\* a backtick, one or more tokens that are none, a backtick, at the start of
\* h: the length of the match, or 0
InlineAt(h) ==
  IF h # <<>> /\ h[1] = Backtick
  THEN LET r == Run(Tail(h), NotBacktick)
       IN  IF r >= 1 /\ Len(h) >= r + 2 THEN r + 2 ELSE 0
  ELSE 0

\* formatContent, fourth replace: inline code
RECURSIVE InlineCode(_)
InlineCode(h) ==
  IF h = <<>> THEN <<>>
  ELSE LET n == InlineAt(h) IN
       IF n > 0
       THEN <<CodeOpen>> \o SubSeq(h, 2, n - 1) \o <<CodeClose>> \o InlineCode(Drop(h, n))
       ELSE <<h[1]>> \o InlineCode(Tail(h))

\* mark, text, mark at the start of h: the length of the match, or 0. The lazy
\* group takes one token at least and stops at the first mark after it, and the
\* dot takes no line break
PairAt(h, mark) ==
  IF Len(h) >= Len(mark) /\ SubSeq(h, 1, Len(mark)) = mark
  THEN LET close == First(h, mark, Len(mark) + 2)
       IN  IF close # 0 /\ \A j \in (Len(mark) + 1)..(close - 1) : h[j] # Nl
           THEN close + Len(mark) - 1
           ELSE 0
  ELSE 0

RECURSIVE Paired(_, _, _, _)
Paired(h, mark, open, close) ==
  IF h = <<>> THEN <<>>
  ELSE LET n == PairAt(h, mark) IN
       IF n > 0
       THEN <<open>> \o SubSeq(h, Len(mark) + 1, n - Len(mark)) \o <<close>>
              \o Paired(Drop(h, n), mark, open, close)
       ELSE <<h[1]>> \o Paired(Tail(h), mark, open, close)

\* formatContent, fifth replace: two stars around a text
Bold(h) == Paired(h, <<Star, Star>>, StrongOpen, StrongClose)

\* formatContent, sixth replace: one star around a text
Italic(h) == Paired(h, <<Star>>, EmOpen, EmClose)

\* formatContent, seventh replace: a line of digits, a dot, a blank and a text
OlLine(line) ==
  LET d == Run(line, IsDigit) IN
  IF d >= 1 /\ Len(line) > d + 2 /\ line[d + 1] = Ch(".") /\ line[d + 2] = Ch(" ")
  THEN <<OlItemOpen(SubSeq(line, 1, d))>> \o Drop(line, d + 2) \o <<LiClose>>
  ELSE line
OrderedItems(h) == EachLine(h, OlLine)

\* formatContent, eighth replace: a line of a dash, a blank and a text
LiLine(line) == Marked(line, Dash, LiOpen, LiClose)
Items(h) == EachLine(h, LiLine)

IsLiOpen(tok) == tok.k = "tag" /\ tok.v \in {LiOpen.v, OlItemOpen(<<>>).v}
NotNl(tok) == tok # Nl

\* one item at the start of h, as the list pattern takes it: an opening li tag,
\* the rest of the line up to its last closing li tag, and the line break after
\* it if there is one; the length, or 0
ItemAt(h) ==
  IF h # <<>> /\ IsLiOpen(h[1])
  THEN LET closes == {j \in 2..Run(h, NotNl) : h[j] = LiClose} IN
       IF closes = {} THEN 0
       ELSE LET c == CHOOSE j \in closes : \A o \in closes : o <= j
            IN  IF Len(h) > c /\ h[c + 1] = Nl THEN c + 1 ELSE c
  ELSE 0

\* the items that follow one another at the start of h: their length
RECURSIVE ItemsAt(_)
ItemsAt(h) ==
  LET n == ItemAt(h) IN IF n = 0 THEN 0 ELSE n + ItemsAt(Drop(h, n))

\* formatContent, ninth replace: every run of items wrapped into a list
RECURSIVE Lists(_)
Lists(h) ==
  IF h = <<>> THEN <<>>
  ELSE LET n == ItemsAt(h) IN
       IF n > 0
       THEN <<UlOpen>> \o SubSeq(h, 1, n) \o <<UlClose>> \o Lists(Drop(h, n))
       ELSE <<h[1]>> \o Lists(Tail(h))

\* formatContent, tenth replace: every line break becomes a br tag
Breaks(h) == [i \in DOMAIN h |-> IF h[i] = Nl THEN Br ELSE h[i]]

\* formatContent, eleventh replace: the br right after the opening of a list
RECURSIVE AfterUlOpen(_)
AfterUlOpen(h) ==
  IF h = <<>> THEN <<>>
  ELSE IF Len(h) >= 2 /\ h[1] = UlOpen /\ h[2] = Br
       THEN <<UlOpen>> \o AfterUlOpen(Drop(h, 2))
       ELSE <<h[1]>> \o AfterUlOpen(Tail(h))

\* formatContent, twelfth replace: the br right before the end of a list
RECURSIVE BeforeUlClose(_)
BeforeUlClose(h) ==
  IF h = <<>> THEN <<>>
  ELSE IF Len(h) >= 2 /\ h[1] = Br /\ h[2] = UlClose
       THEN <<UlClose>> \o BeforeUlClose(Drop(h, 2))
       ELSE <<h[1]>> \o BeforeUlClose(Tail(h))

\* formatContent, thirteenth replace: the br between two items
RECURSIVE BetweenItems(_)
BetweenItems(h) ==
  IF h = <<>> THEN <<>>
  ELSE IF Len(h) >= 3 /\ h[1] = LiClose /\ h[2] = Br /\ IsLiOpen(h[3])
       THEN <<LiClose, h[3]>> \o BetweenItems(Drop(h, 3))
       ELSE <<h[1]>> \o BetweenItems(Tail(h))

\* formatContent, fourteenth replace: the br right after a heading
RECURSIVE AfterHeading(_)
AfterHeading(h) ==
  IF h = <<>> THEN <<>>
  ELSE IF Len(h) >= 2 /\ h[1] \in {H3Close, H4Close} /\ h[2] = Br
       THEN <<h[1]>> \o AfterHeading(Drop(h, 2))
       ELSE <<h[1]>> \o AfterHeading(Tail(h))

\* the four replaces that take line breaks out again
Cleanup(h) == AfterHeading(BetweenItems(BeforeUlClose(AfterUlOpen(h))))

\* formatContent up to the replace of the line breaks
Marked_Up(content) ==
  Breaks(Lists(Items(OrderedItems(Italic(Bold(InlineCode(CodeBlocks(
    Headings3(Headings4(Esc(content)))))))))))

\* formatContent(content)
FormatContent(content) == Cleanup(Marked_Up(content))

----------------------------------------------------------------------------
(* Initial state: after construction and ngOnInit *)

InitialMessages == IF component = "agent" THEN <<WelcomeMessage>> ELSE <<>>

\* the fields of the upload panel and of the counters; ngOnInit of the dashboard
\* calls loadStats, ngOnInit of the UploadComponent calls loadDocuments
InitUploadFields ==
  /\ items = <<>>
  /\ uploads = <<>>
  /\ uploadCalls = <<>>
  /\ issued = <<>>
  /\ store = InitialStore
  /\ documents = <<>>
  /\ totalDocs = 0
  /\ totalChunks = 0
  /\ health = NoHealth
  /\ docFetches = IF component = "agent" THEN <<>> ELSE <<Fetch(Unserved, ByInit)>>
  /\ healthPending = IF component = "dashboard" THEN 1 ELSE 0
  /\ analyticsPending = IF component = "dashboard" THEN 1 ELSE 0
  /\ deleteCalls = <<>>
  /\ deletesIssued = 0
  /\ refetched = {}

\* no call of the renderer is looked at
NotRendered == <<Tag("", <<>>)>>
InitRenderFields == msgContent = <<>> /\ html = NotRendered

InitFields ==
  /\ InitRenderFields
  /\ component \in {"agent", "dashboard"}
  /\ messages = InitialMessages
  /\ inputText = <<>>
  /\ isLoading = FALSE
  /\ sessionId = Undefined
  /\ agentMode = "query"
  /\ totalQueries = 0
  /\ inflight = <<>>
  /\ accepted = <<>>
  /\ lastSid = Undefined
  /\ lastOp = Op("ngOnInit", NoArg)
  /\ InitUploadFields

Init == profile = "wide" /\ InitFields
InitDeep == profile = "deep" /\ InitFields
InitLive == profile = "live" /\ InitFields

----------------------------------------------------------------------------
(* The user edits the bound fields *)

TypeInput ==
  /\ \E t \in Texts : inputText' = t
  /\ lastOp' = Op("input", NoArg)
  /\ UNCHANGED <<renderVars, uploadVars, component, profile, messages, isLoading, sessionId, agentMode,
                 totalQueries, inflight, accepted, lastSid>>

SelectMode ==
  /\ component = "agent"
  /\ \E m \in ModesOffered : agentMode' = m
  /\ lastOp' = Op("mode", NoArg)
  /\ UNCHANGED <<renderVars, uploadVars, component, profile, messages, inputText, isLoading, sessionId,
                 totalQueries, inflight, accepted, lastSid>>

----------------------------------------------------------------------------
(* sendMessage *)

\* mutant: the switch has no case for config, which falls to the default
Dispatch_NoConfigCase(text, compareVendors, compareTopic, configVendor) ==
  IF component = "dashboard" THEN QueryRequest(text)
  ELSE CASE agentMode = "compare" -> CompareRequest(text, compareVendors, compareTopic)
         [] agentMode = "troubleshoot" -> TroubleshootRequest(text)
         [] OTHER -> QueryRequest(text)

\* the request sendMessage issues for text: the agent component switches on
\* agentMode, the dashboard component always queries
Dispatch(text, compareVendors, compareTopic, configVendor) ==
  IF component = "dashboard" THEN QueryRequest(text)
  ELSE CASE agentMode = "compare" -> CompareRequest(text, compareVendors, compareTopic)
         [] agentMode = "config" -> ConfigGenRequest(text, configVendor)
         [] agentMode = "troubleshoot" -> TroubleshootRequest(text)
         [] OTHER -> QueryRequest(text)

\* what the compareVendors field held when sendCompare read it
Bound(compareVendors) ==
  IF component = "agent" /\ agentMode = "compare"
  THEN [compareVendors |-> compareVendors]
  ELSE NoArg

\* mutants of the guard: one clause dropped
Rejects_IgnoresLoading(text) == text = <<>>
Rejects_IgnoresEmpty(text) == isLoading

\* if (!text || this.isLoading) return;
Rejects(text) == text = <<>> \/ isLoading

\* the model's bounds on the transcript and on the query counter
WithinBounds ==
  /\ Len(messages) < MaxMsgs
  /\ component = "dashboard" => totalQueries + Len(inflight) < MaxQueries

SendMessage ==
  LET text == Trim(inputText) IN
  IF Rejects(text)
  THEN /\ lastOp' = Op("sendMessage.return", NoArg)
       /\ UNCHANGED <<renderVars, uploadVars, component, profile, messages, inputText, isLoading, sessionId,
                      agentMode, totalQueries, inflight, accepted, lastSid>>
  ELSE /\ WithinBounds
       /\ messages' = Push(messages, UserMessage(text))
       /\ inputText' = <<>>
       /\ isLoading' = TRUE
       /\ \E cv \in CompareVendorsInputs, ct \in CompareTopicInputs,
             cf \in ConfigVendorInputs :
            /\ inflight' = Append(inflight, Dispatch(text, cv, ct, cf))
            /\ lastOp' = Op("sendMessage.sent", Bound(cv))
       /\ accepted' = Append(accepted, text)
       /\ UNCHANGED <<renderVars, uploadVars, component, profile, sessionId, agentMode, totalQueries, lastSid>>
----------------------------------------------------------------------------
(* The subscribers: one next and one error handler per call *)

SendQueryNext ==
  \E i \in DOMAIN inflight, res \in QueryResponses :
    /\ component = "agent"
    /\ inflight[i].endpoint = "query"
    /\ sessionId' = res.session_id
    /\ lastSid' = res.session_id
    /\ messages' = Push(messages, AssistantMessage(res.answer, res.sources))
    /\ isLoading' = FALSE
    /\ inflight' = Answered(i)
    /\ lastOp' = Op("sendQuery.next", res)
    /\ UNCHANGED <<renderVars, uploadVars, component, profile, inputText, agentMode, totalQueries, accepted>>

SendQueryError ==
  \E i \in DOMAIN inflight, err \in Errors :
    /\ component = "agent"
    /\ inflight[i].endpoint = "query"
    /\ messages' = Push(messages, ErrorMessage(QueryErrorText(err)))
    /\ isLoading' = FALSE
    /\ inflight' = Answered(i)
    /\ lastOp' = Op("sendQuery.error", err)
    /\ UNCHANGED <<renderVars, uploadVars, component, profile, inputText, sessionId, agentMode,
                   totalQueries, accepted, lastSid>>

\* mutant: the handler stores res.session_id, a field a compare response lacks
SendCompareNext_StoresSession ==
  \E i \in DOMAIN inflight, res \in CompareResponses :
    /\ component = "agent"
    /\ inflight[i].endpoint = "compare"
    /\ sessionId' = Undefined
    /\ messages' = Push(messages, AssistantMessage(res.comparison, res.sources))
    /\ isLoading' = FALSE
    /\ inflight' = Answered(i)
    /\ lastOp' = Op("sendCompare.next", res)
    /\ UNCHANGED <<renderVars, uploadVars, component, profile, inputText, agentMode, totalQueries,
                   accepted, lastSid>>

SendCompareNext ==
  \E i \in DOMAIN inflight, res \in CompareResponses :
    /\ component = "agent"
    /\ inflight[i].endpoint = "compare"
    /\ messages' = Push(messages, AssistantMessage(res.comparison, res.sources))
    /\ isLoading' = FALSE
    /\ inflight' = Answered(i)
    /\ lastOp' = Op("sendCompare.next", res)
    /\ UNCHANGED <<renderVars, uploadVars, component, profile, inputText, sessionId, agentMode,
                   totalQueries, accepted, lastSid>>

\* mutant: the error handler leaves the in-flight flag set
SendCompareError_KeepsLoading ==
  \E i \in DOMAIN inflight, err \in Errors :
    /\ component = "agent"
    /\ inflight[i].endpoint = "compare"
    /\ messages' = Push(messages, ErrorMessage(AgentErrorText(err)))
    /\ inflight' = Answered(i)
    /\ lastOp' = Op("sendCompare.error", err)
    /\ UNCHANGED <<renderVars, uploadVars, component, profile, inputText, isLoading, sessionId, agentMode,
                   totalQueries, accepted, lastSid>>

SendCompareError ==
  \E i \in DOMAIN inflight, err \in Errors :
    /\ component = "agent"
    /\ inflight[i].endpoint = "compare"
    /\ messages' = Push(messages, ErrorMessage(AgentErrorText(err)))
    /\ isLoading' = FALSE
    /\ inflight' = Answered(i)
    /\ lastOp' = Op("sendCompare.error", err)
    /\ UNCHANGED <<renderVars, uploadVars, component, profile, inputText, sessionId, agentMode,
                   totalQueries, accepted, lastSid>>

SendConfigGenNext ==
  \E i \in DOMAIN inflight, res \in ConfigGenResponses :
    /\ component = "agent"
    /\ inflight[i].endpoint = "config-gen"
    /\ messages' = Push(messages, AssistantMessage(res.config, res.sources))
    /\ isLoading' = FALSE
    /\ inflight' = Answered(i)
    /\ lastOp' = Op("sendConfigGen.next", res)
    /\ UNCHANGED <<renderVars, uploadVars, component, profile, inputText, sessionId, agentMode,
                   totalQueries, accepted, lastSid>>

SendConfigGenError ==
  \E i \in DOMAIN inflight, err \in Errors :
    /\ component = "agent"
    /\ inflight[i].endpoint = "config-gen"
    /\ messages' = Push(messages, ErrorMessage(AgentErrorText(err)))
    /\ isLoading' = FALSE
    /\ inflight' = Answered(i)
    /\ lastOp' = Op("sendConfigGen.error", err)
    /\ UNCHANGED <<renderVars, uploadVars, component, profile, inputText, sessionId, agentMode,
                   totalQueries, accepted, lastSid>>

SendTroubleshootNext ==
  \E i \in DOMAIN inflight, res \in TroubleshootResponses :
    /\ component = "agent"
    /\ inflight[i].endpoint = "troubleshoot"
    /\ sessionId' = res.session_id
    /\ lastSid' = res.session_id
    /\ messages' = Push(messages, AssistantMessage(res.diagnosis, res.sources))
    /\ isLoading' = FALSE
    /\ inflight' = Answered(i)
    /\ lastOp' = Op("sendTroubleshoot.next", res)
    /\ UNCHANGED <<renderVars, uploadVars, component, profile, inputText, agentMode, totalQueries, accepted>>

\* mutant: a failed troubleshoot call ends the session
SendTroubleshootError_DropsSession ==
  \E i \in DOMAIN inflight, err \in Errors :
    /\ component = "agent"
    /\ inflight[i].endpoint = "troubleshoot"
    /\ messages' = Push(messages, ErrorMessage(AgentErrorText(err)))
    /\ isLoading' = FALSE
    /\ sessionId' = Undefined
    /\ lastSid' = Undefined
    /\ inflight' = Answered(i)
    /\ lastOp' = Op("sendTroubleshoot.error", err)
    /\ UNCHANGED <<renderVars, uploadVars, component, profile, inputText, agentMode,
                   totalQueries, accepted>>

SendTroubleshootError ==
  \E i \in DOMAIN inflight, err \in Errors :
    /\ component = "agent"
    /\ inflight[i].endpoint = "troubleshoot"
    /\ messages' = Push(messages, ErrorMessage(AgentErrorText(err)))
    /\ isLoading' = FALSE
    /\ inflight' = Answered(i)
    /\ lastOp' = Op("sendTroubleshoot.error", err)
    /\ UNCHANGED <<renderVars, uploadVars, component, profile, inputText, sessionId, agentMode,
                   totalQueries, accepted, lastSid>>

SendMessageNext ==
  \E i \in DOMAIN inflight, res \in QueryResponses :
    /\ component = "dashboard"
    /\ inflight[i].endpoint = "query"
    /\ sessionId' = res.session_id
    /\ lastSid' = res.session_id
    /\ messages' = Push(messages, AssistantMessage(res.answer, res.sources))
    /\ isLoading' = FALSE
    /\ totalQueries' = totalQueries + 1
    /\ inflight' = Answered(i)
    /\ lastOp' = Op("sendMessage.next", res)
    /\ UNCHANGED <<renderVars, uploadVars, component, profile, inputText, agentMode, accepted>>

SendMessageError ==
  \E i \in DOMAIN inflight, err \in Errors :
    /\ component = "dashboard"
    /\ inflight[i].endpoint = "query"
    /\ messages' = Push(messages, ErrorMessage(DashboardErrorText(err)))
    /\ isLoading' = FALSE
    /\ inflight' = Answered(i)
    /\ lastOp' = Op("sendMessage.error", err)
    /\ UNCHANGED <<renderVars, uploadVars, component, profile, inputText, sessionId, agentMode,
                   totalQueries, accepted, lastSid>>

----------------------------------------------------------------------------
(* clearChat: the agent component calls ngOnInit again, which pushes the
   welcome message *)

\* mutant: the agent's clearChat calls ngOnInit without emptying the list first
ClearedMessages_NotEmptied ==
  IF component = "agent" THEN messages \o <<WelcomeMessage>> ELSE <<>>

ClearedMessages == IF component = "agent" THEN <<>> \o <<WelcomeMessage>> ELSE <<>>

\* mutant: clearChat also takes the in-flight flag back
ClearChat_ResetsLoading ==
  /\ messages' = ClearedMessages
  /\ sessionId' = Undefined
  /\ isLoading' = FALSE
  /\ accepted' = <<>>
  /\ lastSid' = Undefined
  /\ lastOp' = Op("clearChat", NoArg)
  /\ UNCHANGED <<renderVars, uploadVars, component, profile, inputText, agentMode, totalQueries,
                 inflight>>

ClearChat ==
  /\ messages' = ClearedMessages
  /\ sessionId' = Undefined
  /\ accepted' = <<>>
  /\ lastSid' = Undefined
  /\ lastOp' = Op("clearChat", NoArg)
  /\ UNCHANGED <<renderVars, uploadVars, component, profile, inputText, isLoading, agentMode, totalQueries,
                 inflight>>

----------------------------------------------------------------------------
(* The upload panel: addFiles, uploadOne, removeUploadItem *)

\* everything the upload panel and the counters leave alone
chatFields == <<component, profile, messages, inputText, isLoading, sessionId,
                agentMode, inflight, accepted, lastSid, renderVars>>

\* mutant: uploadOne that subscribes to nothing
UploadOne_NoCall(st, id) == st

\* uploadOne(item): one upload call, whose handlers hold the item
UploadOne(st, id) ==
  [st EXCEPT !.calls = Append(@, UploadRequest(id, st.items[id].name)),
             !.issued = Append(@, id)]

\* mutant: every item starts in state pending
Created_Pending(st, item) ==
  [st EXCEPT !.items = Append(@, [item EXCEPT !.status = "pending"]),
             !.uploads = Unshift(@, Len(st.items) + 1)]

\* a new item object, put first in this.uploads
Created(st, item) ==
  [st EXCEPT !.items = Append(@, item),
             !.uploads = Unshift(@, Len(st.items) + 1)]

\* the loop of addFiles over the FileList
RECURSIVE AddLoop(_, _)
AddLoop(files, st) ==
  IF files = <<>> THEN st
  ELSE LET name == Head(files) IN
       IF ~Supported(name)
       THEN AddLoop(Tail(files), Created(st, RejectedItem(name)))
       ELSE AddLoop(Tail(files),
                    UploadOne(Created(st, UploadingItem(name)), Len(st.items) + 1))

\* loadStats(): health, analytics and the document list are asked for at once
LoadStats(cause) ==
  /\ docFetches' = Append(docFetches, Fetch(Unserved, cause))
  /\ healthPending' = healthPending + 1
  /\ analyticsPending' = analyticsPending + 1

\* loadDocuments() of the UploadComponent
LoadDocuments(cause) ==
  /\ docFetches' = Append(docFetches, Fetch(Unserved, cause))
  /\ UNCHANGED <<healthPending, analyticsPending>>

Refresh(cause) == IF component = "upload" THEN LoadDocuments(cause) ELSE LoadStats(cause)

NoRefresh == UNCHANGED <<docFetches, healthPending, analyticsPending>>

\* the model lets a response that refreshes arrive only while fewer than
\* MaxFetches document lists are awaited
\* the answer to this refresh is the re-fetch of a deletion that still stands:
\* the backend has not been given the document again
Refetches(cause) ==
  cause.by = "deleteDocument" /\ ~Holds(store, cause.vendor, cause.document)

RoomToRefresh == Len(docFetches) < MaxFetches

AddFiles ==
  \E files \in FileLists(MaxFiles - Len(items)) :
    LET st == AddLoop(files, [items |-> items, uploads |-> uploads,
                              calls |-> uploadCalls, issued |-> issued])
    IN  /\ component = "dashboard"
        /\ items' = st.items
        /\ uploads' = st.uploads
        /\ uploadCalls' = st.calls
        /\ issued' = st.issued
        /\ lastOp' = Op("addFiles", NoArg)
        /\ UNCHANGED <<chatFields, refetched, totalQueries, store, documents, totalDocs,
                       totalChunks, health, docFetches, healthPending,
                       analyticsPending, deleteCalls, deletesIssued>>

\* the item as the next handler of uploadOne leaves it
Done(item, n) == [item EXCEPT !.status = "done", !.chunks = n, !.msg = IndexedText(n)]

\* mutant: the success handler of uploadOne without its call of loadStats
UploadNext_NoRefresh ==
  \E k \in DOMAIN uploadCalls, n \in ChunksAdded :
    LET call == uploadCalls[k] IN
    /\ RoomToRefresh
    /\ items' = [items EXCEPT ![call.item] = Done(@, n)]
    /\ store' = Indexed(store, call.file, n)
    /\ uploadCalls' = Without(uploadCalls, k)
    /\ NoRefresh
    /\ refetched' = refetched \ {Pair(NoVendor, call.file)}
    /\ lastOp' = Op("uploadOne.next", [item |-> call.item])
    /\ UNCHANGED <<chatFields, totalQueries, uploads, issued, documents, totalDocs,
                   totalChunks, health, deleteCalls, deletesIssued>>

\* uploadOne, next: the backend has indexed the file
UploadNext ==
  \E k \in DOMAIN uploadCalls, n \in ChunksAdded :
    LET call == uploadCalls[k] IN
    /\ RoomToRefresh
    /\ items' = [items EXCEPT ![call.item] = Done(@, n)]
    /\ store' = Indexed(store, call.file, n)
    /\ uploadCalls' = Without(uploadCalls, k)
    /\ LoadStats(ByUpload(call.item))
    /\ refetched' = refetched \ {Pair(NoVendor, call.file)}
    /\ lastOp' = Op("uploadOne.next", [item |-> call.item])
    /\ UNCHANGED <<chatFields, totalQueries, uploads, issued, documents, totalDocs,
                   totalChunks, health, deleteCalls, deletesIssued>>

\* mutant: a failed upload is tried again
UploadError_Retries ==
  \E k \in DOMAIN uploadCalls, err \in UploadErrors :
    LET call == uploadCalls[k] IN
    /\ items' = [items EXCEPT ![call.item] =
                   [@ EXCEPT !.status = "error", !.msg = UploadErrorText(err)]]
    /\ uploadCalls' = Append(Without(uploadCalls, k), call)
    /\ issued' = Append(issued, call.item)
    /\ NoRefresh
    /\ lastOp' = Op("uploadOne.error", [item |-> call.item, err |-> err])
    /\ UNCHANGED <<chatFields, refetched, totalQueries, uploads, store, documents,
                   totalDocs, totalChunks, health, deleteCalls, deletesIssued>>

\* uploadOne, error
UploadError ==
  \E k \in DOMAIN uploadCalls, err \in UploadErrors :
    LET call == uploadCalls[k] IN
    /\ items' = [items EXCEPT ![call.item] =
                   [@ EXCEPT !.status = "error", !.msg = UploadErrorText(err)]]
    /\ uploadCalls' = Without(uploadCalls, k)
    /\ NoRefresh
    /\ lastOp' = Op("uploadOne.error", [item |-> call.item, err |-> err])
    /\ UNCHANGED <<chatFields, refetched, totalQueries, uploads, issued, store, documents,
                   totalDocs, totalChunks, health, deleteCalls, deletesIssued>>

\* mutant: removing an item unsubscribes from its upload call
RemoveUploadItem_Cancels ==
  \E i \in 0..(Len(uploads) - 1) :
    /\ uploads' = Splice(uploads, i)
    /\ uploadCalls' = SelectSeq(uploadCalls, LAMBDA call : call.item # uploads[i + 1])
    /\ lastOp' = Op("removeUploadItem", [i |-> i, item |-> uploads[i + 1]])
    /\ UNCHANGED <<chatFields, refetched, totalQueries, items, issued, store,
                   documents, totalDocs, totalChunks, health, docFetches,
                   healthPending, analyticsPending, deleteCalls, deletesIssued>>

\* removeUploadItem(i), i an index of the list the template shows
RemoveUploadItem ==
  \E i \in 0..(Len(uploads) - 1) :
    /\ uploads' = Splice(uploads, i)
    /\ lastOp' = Op("removeUploadItem", [i |-> i, item |-> uploads[i + 1]])
    /\ UNCHANGED <<chatFields, refetched, totalQueries, items, uploadCalls, issued, store,
                   documents, totalDocs, totalChunks, health, docFetches,
                   healthPending, analyticsPending, deleteCalls, deletesIssued>>

----------------------------------------------------------------------------
(* The counters and the document list: loadStats, loadDocuments, deleteDocument *)

\* loadStats, health: next and error
HealthNext ==
  /\ healthPending > 0
  /\ health' = Healthy
  /\ healthPending' = healthPending - 1
  /\ lastOp' = Op("health.next", NoArg)
  /\ UNCHANGED <<chatFields, refetched, totalQueries, items, uploads, uploadCalls, issued,
                 store, documents, totalDocs, totalChunks, docFetches,
                 analyticsPending, deleteCalls, deletesIssued>>

HealthError ==
  /\ healthPending > 0
  /\ healthPending' = healthPending - 1
  /\ lastOp' = Op("health.error", NoArg)
  /\ UNCHANGED <<chatFields, refetched, totalQueries, items, uploads, uploadCalls, issued,
                 store, documents, totalDocs, totalChunks, health, docFetches,
                 analyticsPending, deleteCalls, deletesIssued>>

\* loadStats, analytics: next and error
AnalyticsNext ==
  /\ analyticsPending > 0
  /\ totalQueries' = ReportedQueries
  /\ analyticsPending' = analyticsPending - 1
  /\ lastOp' = Op("getAnalytics.next", NoArg)
  /\ UNCHANGED <<chatFields, refetched, items, uploads, uploadCalls, issued, store,
                 documents, totalDocs, totalChunks, health, docFetches,
                 healthPending, deleteCalls, deletesIssued>>

AnalyticsError ==
  /\ analyticsPending > 0
  /\ analyticsPending' = analyticsPending - 1
  /\ lastOp' = Op("getAnalytics.error", NoArg)
  /\ UNCHANGED <<chatFields, refetched, totalQueries, items, uploads, uploadCalls, issued,
                 store, documents, totalDocs, totalChunks, health, docFetches,
                 healthPending, deleteCalls, deletesIssued>>

\* the stub backend reads its documents for one of the GET /documents calls
ServeDocuments ==
  \E k \in DOMAIN docFetches :
    /\ ~docFetches[k].served
    /\ docFetches' = [docFetches EXCEPT ![k] = Fetch(Served(store), @.cause)]
    /\ lastOp' = Op("backend.documents", NoArg)
    /\ UNCHANGED <<chatFields, refetched, totalQueries, items, uploads, uploadCalls, issued,
                   store, documents, totalDocs, totalChunks, health,
                   healthPending, analyticsPending, deleteCalls, deletesIssued>>

\* mutant: an empty list that was served is not taken over
GetDocumentsNext_KeepsLast ==
  \E k \in DOMAIN docFetches :
    LET d == docFetches[k].body IN
    /\ docFetches[k].served
    /\ documents' = IF d.documents = <<>> THEN documents ELSE d.documents
    /\ totalDocs' = IF component = "dashboard" THEN Len(d.documents) ELSE totalDocs
    /\ totalChunks' = d.total_chunks
    /\ docFetches' = Without(docFetches, k)
    /\ refetched' = IF Refetches(docFetches[k].cause) THEN refetched \cup {PairOf(docFetches[k].cause)} ELSE refetched
    /\ lastOp' = Op("getDocuments.next", docFetches[k].cause)
    /\ UNCHANGED <<chatFields, totalQueries, items, uploads, uploadCalls, issued,
                   store, health, healthPending, analyticsPending, deleteCalls,
                   deletesIssued>>

\* getDocuments, next: the list that was served replaces the local one
GetDocumentsNext ==
  \E k \in DOMAIN docFetches :
    LET d == docFetches[k].body IN
    /\ docFetches[k].served
    /\ documents' = d.documents
    /\ totalDocs' = IF component = "dashboard" THEN Len(d.documents) ELSE totalDocs
    /\ totalChunks' = d.total_chunks
    /\ docFetches' = Without(docFetches, k)
    /\ refetched' = IF Refetches(docFetches[k].cause) THEN refetched \cup {PairOf(docFetches[k].cause)} ELSE refetched
    /\ lastOp' = Op("getDocuments.next", docFetches[k].cause)
    /\ UNCHANGED <<chatFields, totalQueries, items, uploads, uploadCalls, issued,
                   store, health, healthPending, analyticsPending, deleteCalls,
                   deletesIssued>>

\* getDocuments, error
GetDocumentsError ==
  \E k \in DOMAIN docFetches :
    /\ ~docFetches[k].served
    /\ docFetches' = Without(docFetches, k)
    /\ lastOp' = Op("getDocuments.error", docFetches[k].cause)
    /\ UNCHANGED <<chatFields, refetched, totalQueries, items, uploads, uploadCalls, issued,
                   store, documents, totalDocs, totalChunks, health,
                   healthPending, analyticsPending, deleteCalls, deletesIssued>>

\* window.confirm of the UploadComponent; the dashboard asks nothing
Confirms == IF component = "upload" THEN BOOLEAN ELSE {TRUE}

\* mutant: the document is taken off the local list at once
DeleteDocument_Optimistic ==
  \E k \in DOMAIN documents, ok \in Confirms :
    /\ deletesIssued < MaxDeletes
    /\ documents' = Without(documents, k)
    /\ deleteCalls' = Append(deleteCalls, DeleteRequest(documents[k]))
    /\ deletesIssued' = deletesIssued + 1
    /\ lastOp' = Op("deleteDocument", DeleteRequest(documents[k]))
    /\ UNCHANGED <<chatFields, refetched, totalQueries, items, uploads, uploadCalls, issued,
                   store, totalDocs, totalChunks, health, docFetches,
                   healthPending, analyticsPending>>

\* deleteDocument(doc), doc a row of the local list
DeleteDocument ==
  \E k \in DOMAIN documents, ok \in Confirms :
    /\ deletesIssued < MaxDeletes
    /\ IF ok
       THEN /\ deleteCalls' = Append(deleteCalls, DeleteRequest(documents[k]))
            /\ deletesIssued' = deletesIssued + 1
            /\ lastOp' = Op("deleteDocument", DeleteRequest(documents[k]))
       ELSE /\ lastOp' = Op("deleteDocument.return", DeleteRequest(documents[k]))
            /\ UNCHANGED <<deleteCalls, deletesIssued>>
    /\ UNCHANGED <<chatFields, refetched, totalQueries, items, uploads, uploadCalls, issued,
                   store, documents, totalDocs, totalChunks, health, docFetches,
                   healthPending, analyticsPending>>

\* deleteDocument, next: the stub backend has removed the document
DeleteNext ==
  \E k \in DOMAIN deleteCalls :
    LET call == deleteCalls[k] IN
    /\ RoomToRefresh
    /\ store' = Keep(store, call.vendor, call.document)
    /\ deleteCalls' = Without(deleteCalls, k)
    /\ Refresh(ByDelete(call))
    /\ refetched' = refetched \ {call}
    /\ lastOp' = Op("deleteDocument.next", call)
    /\ UNCHANGED <<chatFields, totalQueries, items, uploads, uploadCalls, issued,
                   documents, totalDocs, totalChunks, health, deletesIssued>>

\* mutant: the list is fetched again after a failed deletion too
DeleteError_Refreshes ==
  \E k \in DOMAIN deleteCalls :
    LET call == deleteCalls[k] IN
    /\ RoomToRefresh
    /\ deleteCalls' = Without(deleteCalls, k)
    /\ Refresh(ByDelete(call))
    /\ lastOp' = Op("deleteDocument.error", call)
    /\ UNCHANGED <<chatFields, refetched, totalQueries, items, uploads, uploadCalls, issued,
                   store, documents, totalDocs, totalChunks, health, deletesIssued>>

\* deleteDocument, error: the backend has kept the document
DeleteError ==
  \E k \in DOMAIN deleteCalls :
    LET call == deleteCalls[k] IN
    /\ deleteCalls' = Without(deleteCalls, k)
    /\ NoRefresh
    /\ lastOp' = Op("deleteDocument.error", call)
    /\ UNCHANGED <<chatFields, refetched, totalQueries, items, uploads, uploadCalls, issued,
                   store, documents, totalDocs, totalChunks, health, deletesIssued>>

----------------------------------------------------------------------------
(* Specifications *)

Respond ==
  \/ SendQueryNext \/ SendQueryError
  \/ SendCompareNext \/ SendCompareError
  \/ SendConfigGenNext \/ SendConfigGenError
  \/ SendTroubleshootNext \/ SendTroubleshootError
  \/ SendMessageNext \/ SendMessageError

Next == TypeInput \/ SelectMode \/ SendMessage \/ Respond \/ ClearChat

\* rich inputs, short transcripts
Spec == Init /\ [][Next]_vars

\* plain inputs and the two modes that send history, transcripts longer than
\* the context window
NextDeep ==
  \/ TypeInput \/ SelectMode \/ SendMessage \/ ClearChat
  \/ SendQueryNext \/ SendQueryError
  \/ SendTroubleshootNext \/ SendTroubleshootError
  \/ SendMessageNext \/ SendMessageError

SpecDeep == InitDeep /\ [][NextDeep]_vars

\* plain inputs, short transcripts; the backend eventually answers every call
SpecLive == InitLive /\ [][Next]_vars /\ WF_vars(Respond)

\* the agent asked to compare: questions made of vendor names in any case
InitVendors == profile = "vendors" /\ InitFields /\ component = "agent"

NextVendors ==
  \/ TypeInput \/ SelectMode \/ SendMessage \/ ClearChat
  \/ SendQueryNext \/ SendQueryError
  \/ SendCompareNext \/ SendCompareError

SpecVendors == InitVendors /\ [][NextVendors]_vars

\* the upload panel of the dashboard: batches of files of every kind
InitPanel == profile = "panel" /\ InitFields /\ component = "dashboard"

\* the calls of loadStats stay unanswered while the panel is watched
NextPanel == AddFiles \/ UploadNext \/ UploadError \/ RemoveUploadItem

SpecPanel == InitPanel /\ [][NextPanel]_vars

\* the dashboard as a whole: the chat and the upload panel side by side, the
\* calls of loadStats staying unanswered
InitMixed == profile = "mixed" /\ InitFields /\ component = "dashboard"

NextMixed ==
  \/ TypeInput \/ SendMessage \/ SendMessageNext \/ SendMessageError \/ ClearChat
  \/ AddFiles \/ UploadNext \/ UploadError \/ RemoveUploadItem

SpecMixed == InitMixed /\ [][NextMixed]_vars

\* the upload panel with a backend that answers every upload call in the end
InitAwait == profile = "await" /\ InitFields /\ component = "dashboard"

UploadAnswered == UploadNext \/ UploadError

SpecAwait == InitAwait /\ [][NextPanel]_vars /\ WF_vars(UploadAnswered)

\* the document list of the dashboard and of the UploadComponent: deletions,
\* one upload, refreshes that overlap
InitDocs ==
  /\ profile = "docs"
  /\ component \in {"dashboard", "upload"}
  /\ messages = <<>>
  /\ inputText = <<>>
  /\ isLoading = FALSE
  /\ sessionId = Undefined
  /\ agentMode = "query"
  /\ totalQueries = 0
  /\ inflight = <<>>
  /\ accepted = <<>>
  /\ lastSid = Undefined
  /\ lastOp = Op("ngOnInit", NoArg)
  /\ InitUploadFields
  /\ InitRenderFields

\* the health and analytics calls stay unanswered while the list is watched
NextDocs ==
  \/ AddFiles \/ UploadNext \/ UploadError \/ RemoveUploadItem
  \/ DeleteDocument \/ DeleteNext \/ DeleteError
  \/ ServeDocuments \/ GetDocumentsNext \/ GetDocumentsError

SpecDocs == InitDocs /\ [][NextDocs]_vars

\* the renderer of the dashboard, called once with a content put together from
\* a few pieces of text; three families of contents
RenderProfiles == {"escape", "cleanup", "fence"}

Pieces ==
  CASE profile = "escape" ->
         {<<"<">>, <<">">>, <<"&">>, <<"#", "#", " ">>, <<"*">>, <<BacktickChar>>,
          <<"-", " ">>, <<"\n">>}
    [] profile = "cleanup" ->
         {<<"#", "#", " ">>, <<"#", "#", "#", " ">>, <<"-", " ">>, <<"1", ".", " ">>,
          <<"a">>, <<"\n">>}
    [] OTHER ->
         {<<BacktickChar, BacktickChar, BacktickChar>>, <<BacktickChar>>, <<"a">>,
          <<"\n">>, <<" ">>}

MaxPieces ==
  CASE profile = "escape" -> MaxPiecesEscape
    [] profile = "cleanup" -> MaxPiecesCleanup
    [] OTHER -> MaxPiecesFence

RECURSIVE Concat(_)
Concat(ps) == IF ps = <<>> THEN <<>> ELSE ps[1] \o Concat(Tail(ps))

Contents == {Concat(ps) : ps \in UNION {[1..n -> Pieces] : n \in 0..MaxPieces}}

InitRender ==
  /\ profile \in RenderProfiles
  /\ component = "dashboard"
  /\ messages = <<>>
  /\ inputText = <<>>
  /\ isLoading = FALSE
  /\ sessionId = Undefined
  /\ agentMode = "query"
  /\ totalQueries = 0
  /\ inflight = <<>>
  /\ accepted = <<>>
  /\ lastSid = Undefined
  /\ lastOp = Op("ngOnInit", NoArg)
  /\ InitUploadFields
  /\ msgContent \in Contents
  /\ html = NotRendered

\* the template calls formatContent(msg.content)
Render ==
  /\ html = NotRendered
  /\ html' = FormatContent(msgContent)
  /\ lastOp' = Op("formatContent", NoArg)
  /\ UNCHANGED <<component, profile, messages, inputText, isLoading, sessionId,
                 agentMode, totalQueries, inflight, accepted, lastSid, uploadVars,
                 msgContent>>

NextRender == Render

SpecRender == InitRender /\ [][NextRender]_vars
----------------------------------------------------------------------------
(* Steps, as the properties below recognise them *)

\* the state of the component itself, without the history variables
fields == <<messages, inputText, isLoading, sessionId, agentMode, totalQueries>>

\* a backend call is issued in this step; the new request is the last one
Issues == Len(inflight') = Len(inflight) + 1
Issued == inflight'[Len(inflight')]

\* the i-th outstanding request is answered in this step
Answers(i) == i \in DOMAIN inflight /\ inflight' = Answered(i)
AnswersOne == \E i \in DOMAIN inflight : Answers(i)

\* exactly msg is appended to the transcript in this step
Appends(msg) == messages' = messages \o <<msg>>
AppendsOne == Len(messages') = Len(messages) + 1
                /\ SubSeq(messages', 1, Len(messages)) = messages

LastMessage == messages[Len(messages)]

----------------------------------------------------------------------------
(* C1: at most one chat request is outstanding at any time, and a sendMessage
   call made while a request is in flight issues no backend call, appends no
   message and changes no field of the component. *)
C1_SingleFlight ==
  /\ [](Len(inflight) <= 1)
  /\ [][SendMessage /\ Len(inflight) > 0 => UNCHANGED <<fields, inflight>>]_vars

\* a sendMessage call with a sendable text has just returned early while a
\* request is outstanding
C1_Witness ==
  /\ lastOp.op = "sendMessage.return"
  /\ Len(inflight) = 1
  /\ Trim(inputText) # <<>>
(* C2: when the backend eventually answers every call, every accepted submit
   is eventually answered, each answer (success or error) appends exactly one
   assistant message and clears the in-flight flag, an assistant message is
   appended by nothing but an answer, and the flag is clear once the answer
   is in, so that a later submit is accepted again. *)
C2_AnsweredOnce ==
  /\ (Len(inflight) > 0) ~> (Len(inflight) = 0 /\ ~isLoading)
  /\ [][AnswersOne => /\ AppendsOne
                      /\ messages'[Len(messages')].role = "assistant"
                      /\ ~isLoading']_vars
  /\ [][AppendsOne /\ messages'[Len(messages')].role = "assistant"
          => AnswersOne]_vars

\* a failed call has been answered, its error message is in the transcript and
\* the next submit would be accepted
C2_Witness ==
  /\ lastOp.op = "sendCompare.error"
  /\ LastMessage.role = "assistant"
  /\ Len(inflight) = 0
  /\ ~isLoading
  /\ ~Rejects(<<"a">>)
\* the contents of the user messages of the transcript, in transcript order
UserTexts ==
  LET users == SelectSeq(messages, LAMBDA m : m.role = "user")
  IN  [k \in DOMAIN users |-> users[k].content]

(* C3: the user message of a turn is appended in the step of the submit that
   issues the backend call, so the user messages of the transcript are the
   accepted submits (since the last clearChat) in their order; each reply is
   appended at the end of the transcript, and unless the transcript was
   cleared meanwhile, right after the user message of its own turn. *)
C3_TranscriptOrder ==
  /\ [](UserTexts = accepted)
  /\ [][Issues => Appends([role |-> "user", content |-> Trim(inputText)])]_vars
  /\ [][AnswersOne =>
          /\ AppendsOne
          /\ accepted # <<>> =>
               LastMessage = [role |-> "user", content |-> accepted[Len(accepted)]]]_vars

\* the second turn of a conversation has been answered: two different user
\* texts are in the transcript, each followed by its reply
C3_Witness ==
  /\ accepted = <<<<"b">>, <<"a">>>>
  /\ Len(inflight) = 0
  /\ LastMessage.role = "assistant"
  /\ \E k \in DOMAIN messages :
       /\ messages[k] = [role |-> "user", content |-> <<"b">>]
       /\ messages[k + 1].role = "assistant"
       /\ messages[k + 2] = [role |-> "user", content |-> <<"a">>]

(* C4: the stored session id is the one of the latest successful query or
   troubleshoot response since the last clearChat (absent when there is none),
   and every query or troubleshoot request is issued with that id. *)
C4_SessionRoundTrip ==
  /\ [](sessionId = lastSid)
  /\ [][Issues /\ Issued.endpoint \in {"query", "troubleshoot"}
          => Issued.body.session_id = lastSid]_vars

\* a troubleshoot request carries the id that the successful response of the
\* turn before stored
C4_Witness ==
  /\ Len(inflight) = 1
  /\ inflight[1].endpoint = "troubleshoot"
  /\ inflight[1].body.session_id = "S2"
  /\ lastSid = "S2"
  /\ \E k \in DOMAIN messages : messages[k].content = <<"r2">>

(* C5: a compare or config-gen request carries no session id, and the answer
   to one, success or failure, leaves the stored session id as it was. *)
C5_SessionUntouched ==
  /\ [](\A i \in DOMAIN inflight :
          inflight[i].endpoint \in {"compare", "config-gen"}
            => "session_id" \notin DOMAIN inflight[i].body)
  /\ [][\A i \in DOMAIN inflight :
          Answers(i) /\ inflight[i].endpoint \in {"compare", "config-gen"}
            => sessionId' = sessionId]_vars

\* a compare call has succeeded while a session id was stored
C5_Witness ==
  /\ lastOp.op = "sendCompare.next"
  /\ sessionId = "S1"

(* C6: the history sent with a query or troubleshoot request has at most 10
   entries: the {role, content} pairs of the last min(10, n) messages of the
   transcript as it is when the request is built (the turn's own user message
   included), in transcript order. *)
C6_ContextWindow ==
  /\ [](\A i \in DOMAIN inflight :
          inflight[i].endpoint \in {"query", "troubleshoot"}
            => Len(inflight[i].body.conversation_history) <= 10)
  /\ [][Issues /\ Issued.endpoint \in {"query", "troubleshoot"} =>
          LET h == Issued.body.conversation_history
              n == Len(messages')
              k == IF n < 10 THEN n ELSE 10
          IN  /\ Len(h) = k
              /\ \A j \in 1..k :
                   h[j] = [role |-> messages'[n - k + j].role,
                           content |-> messages'[n - k + j].content]]_vars

\* a request built on a transcript of more than 10 messages: the window left
\* the oldest ones out
C6_Witness ==
  /\ Len(inflight) = 1
  /\ Len(messages) > 10
  /\ Len(inflight[1].body.conversation_history) = 10
  /\ inflight[1].body.conversation_history[10] = [role |-> "user", content |-> <<"a">>]
(* C7 as stated: after clearChat the message list is empty and the session id
   absent. *)
C7_Original ==
  lastOp.op = "clearChat" => messages = <<>> /\ sessionId = Undefined

(* C7, amended: after clearChat the session id is absent and the message list
   is as ngOnInit left it, empty in the dashboard component and holding only
   the welcome message in the agent component, whatever the state before; a
   second clearChat changes nothing. *)
C7_ClearChat ==
  /\ [](lastOp.op = "clearChat" =>
          /\ sessionId = Undefined
          /\ component = "dashboard" => messages = <<>>
          /\ component = "agent" =>
               messages = <<[role |-> "assistant", content |-> WelcomeText]>>)
  /\ [][lastOp.op = "clearChat" /\ ClearChat => UNCHANGED vars]_vars

\* the agent's chat has been cleared while a call was outstanding, that is
\* from a transcript that held more than the welcome message
C7_Witness ==
  /\ lastOp.op = "clearChat"
  /\ component = "agent"
  /\ Len(inflight) = 1

(* C8: a sendMessage call whose text is empty after trimming issues no backend
   call, appends no message and changes no field of the component. *)
C8_EmptySubmit ==
  [][SendMessage /\ Trim(inputText) = <<>> => UNCHANGED <<fields, inflight>>]_vars

\* sendMessage has just returned early on a text of white space, with no call
\* outstanding
C8_Witness ==
  /\ lastOp.op = "sendMessage.return"
  /\ inputText = <<" ">>
  /\ ~isLoading
  /\ Len(inflight) = 0

\* the endpoint of each mode
EndpointOf(mode) ==
  CASE mode = "compare" -> "compare"
    [] mode = "config" -> "config-gen"
    [] mode = "troubleshoot" -> "troubleshoot"
    [] OTHER -> "query"

\* the field of a successful response that each handler shows
ContentShown ==
  CASE lastOp.op = "sendQuery.next" -> lastOp.arg.answer
    [] lastOp.op = "sendMessage.next" -> lastOp.arg.answer
    [] lastOp.op = "sendCompare.next" -> lastOp.arg.comparison
    [] lastOp.op = "sendConfigGen.next" -> lastOp.arg.config
    [] lastOp.op = "sendTroubleshoot.next" -> lastOp.arg.diagnosis

SuccessOps ==
  {"sendQuery.next", "sendMessage.next", "sendCompare.next", "sendConfigGen.next",
   "sendTroubleshoot.next"}

(* C9: an accepted submit issues one request, to the endpoint of the selected
   mode; the success handler of each mode appends exactly one assistant
   message, whose content is the response field of that mode (answer,
   comparison, config, diagnosis) and whose sources are the response's. *)
C9_ModeRouting ==
  /\ [](lastOp.op \in SuccessOps =>
          LastMessage = [role |-> "assistant", content |-> ContentShown,
                         sources |-> lastOp.arg.sources])
  /\ [][AnswersOne => AppendsOne]_vars
  /\ [][SendMessage /\ ~Rejects(Trim(inputText)) =>
          /\ Issues
          /\ SubSeq(inflight', 1, Len(inflight)) = inflight
          /\ Issued.endpoint =
               IF component = "agent" THEN EndpointOf(agentMode) ELSE "query"]_vars

\* a config-gen call has succeeded and its config, with its source, is the
\* last message
C9_Witness ==
  /\ lastOp.op = "sendConfigGen.next"
  /\ LastMessage.content = <<"r2">>
  /\ LastMessage.sources = <<Source1>>
ErrorOps ==
  {"sendQuery.error", "sendMessage.error", "sendCompare.error",
   "sendConfigGen.error", "sendTroubleshoot.error"}

(* C10 as stated: the message appended by the error handler of any mode is
   a marker followed by the error body's detail when present, else by the
   transport error's message when present, else by a fixed fallback string;
   it never spells out an absent value. *)
C10_Original ==
  lastOp.op \in ErrorOps =>
    LET err == lastOp.arg
        shown == LastMessage.content[2]
    IN  /\ LastMessage.role = "assistant"
        /\ Len(LastMessage.content) = 2
        /\ LastMessage.content[1] \in {"(x) Error: ", "(x) "}
        /\ err.detail # Undefined => shown = err.detail
        /\ err.detail = Undefined /\ err.message # Undefined => shown = err.message
        /\ err.detail = Undefined /\ err.message = Undefined =>
             shown \in {"Unknown error", "Something went wrong."}
        /\ shown # "undefined"

\* the conversation is fresh: no session and no user turn in the transcript
Fresh == sessionId = Undefined /\ \A i \in DOMAIN messages : messages[i].role # "user"

\* C11 as stated: the first query of a fresh conversation is sent with an absent
\* session_id and an empty conversation_history, and its successful answer adds
\* one assistant message with the answer and stores the session id of the response
C11_Original ==
  [][/\ (Fresh /\ Issues /\ Issued.endpoint = "query") =>
          /\ Issued.body.session_id = Undefined
          /\ Issued.body.conversation_history = <<>>
     /\ (AnswersOne /\ lastOp'.op \in {"sendQuery.next", "sendMessage.next"}) =>
          /\ AppendsOne
          /\ messages'[Len(messages')].role = "assistant"
          /\ messages'[Len(messages')].content = lastOp'.arg.answer
          /\ sessionId' = lastOp'.arg.session_id]_vars

----------------------------------------------------------------------------
(* The upload panel and the document list, as the properties below read them *)

\* the number of upload calls ever issued for an item
CallsFor(id) == Cardinality({k \in DOMAIN issued : issued[k] = id})


----------------------------------------------------------------------------
(* C12..C20: the upload panel and the document list *)

\* C12 as stated: every file whose extension, the suffix after the last dot
\* without regard to case, is none of pdf, html and htm has an item in state
\* error with the message 'Unsupported format' and no upload call, whatever the
\* other files of its batch are
C12_Original ==
  \A id \in DOMAIN items :
    LET rejected == /\ items[id].status = "error"
                    /\ items[id].msg = <<"Unsupported format">>
                    /\ CallsFor(id) = 0
    IN  Suffix(items[id].name) \notin SupportedFormats => rejected

\* the items made by this step, and those of them whose file has an allowed
\* extension
NewItems == (Len(items) + 1)..Len(items')
NewValid == {id \in NewItems : Suffix(items'[id].name) \in SupportedFormats}

\* the upload calls awaited for the items of a set
AwaitedFor(calls, ids) == {k \in DOMAIN calls : calls[k].item \in ids}

\* C13: every file with an allowed extension that addFiles takes up has an item
\* in state uploading and exactly one upload call, issued in the same call of
\* addFiles: the calls of all valid files of a batch are awaited at once, next
\* to the ones awaited before, and no item ever has a second call
C13_ConcurrentUploads ==
  [][lastOp'.op = "addFiles" =>
       /\ \A id \in NewValid :
            /\ items'[id].status = "uploading"
            /\ Cardinality(AwaitedFor(uploadCalls', {id})) = 1
       /\ Cardinality(AwaitedFor(uploadCalls', NewValid)) = Cardinality(NewValid)
       /\ SubSeq(uploadCalls', 1, Len(uploadCalls)) = uploadCalls
       /\ \A id \in DOMAIN items' :
            Suffix(items'[id].name) \in SupportedFormats => CallsFor(id)' = 1]_vars

\* three valid files were taken up and none is answered: three calls are awaited
C13_Witness ==
  /\ lastOp.op = "addFiles"
  /\ Len(uploadCalls) >= 3
  /\ \A id \in DOMAIN items : items[id].status = "uploading"
  /\ \E id \in DOMAIN items : items[id].name = ManualHTM

\* the changes of state an item may make
ItemMoves == {<<"uploading", "done">>, <<"uploading", "error">>}

\* C14: an item is created in state uploading or error, it only moves from
\* uploading to done or from uploading to error, it never leaves done or
\* error, and it is never in state pending
C14_ItemStates ==
  [][\A id \in DOMAIN items' :
       IF id \in DOMAIN items
       THEN \/ items'[id].status = items[id].status
            \/ <<items[id].status, items'[id].status>> \in ItemMoves
       ELSE items'[id].status \in {"uploading", "error"}]_vars

\* a rejected item, an item that went from uploading to done and one that went
\* from uploading to error
C14_Witness ==
  /\ \E id \in DOMAIN items : items[id].msg = <<"Unsupported format">>
  /\ \E id \in DOMAIN items : items[id].status = "done"
  /\ \E id \in DOMAIN items :
       items[id].status = "error" /\ items[id].msg = <<UploadFallback>>

\* the refreshes called by upload completions, told by their GET /documents calls
UploadRefreshes == {k \in DOMAIN docFetches : docFetches[k].cause.by = "uploadOne"}

\* the items whose upload succeeded
Succeeded == {id \in DOMAIN items : items[id].status = "done"}

\* the calls of one loadStats were added to the awaited ones
Refreshed ==
  /\ Len(docFetches') = Len(docFetches) + 1
  /\ healthPending' = healthPending + 1
  /\ analyticsPending' = analyticsPending + 1

\* C15: when an upload succeeds its item becomes done with the chunk count the
\* backend reported and loadStats is called once; no other step of the panel
\* calls it, so the refreshes called by uploads are as many as the uploads that
\* succeeded
C15_RefreshPerSuccess ==
  [][/\ IF lastOp'.op = "uploadOne.next"
        THEN LET id == lastOp'.arg.item IN
             /\ items'[id].status = "done"
             /\ items'[id].chunks = store'[Len(store')].chunk_count
             /\ items'[id].msg = IndexedText(items'[id].chunks)
             /\ Refreshed
        ELSE UNCHANGED <<docFetches, healthPending, analyticsPending>>
     /\ Cardinality(UploadRefreshes') = Cardinality(Succeeded')]_vars

\* of three valid files two were indexed and one failed: two refreshes
C15_Witness ==
  /\ Cardinality(Succeeded) = 2
  /\ Cardinality(UploadRefreshes) = 2
  /\ Len(items) = 3
  /\ \A id \in DOMAIN items : CallsFor(id) = 1
  /\ \E id \in DOMAIN items : items[id].status = "error"

\* C16: a failed upload changes its own item to error and nothing else: every
\* other item keeps status, message and chunk count, the panel keeps its rows,
\* the other uploads stay awaited, and no call of any kind is issued
C16_FailureIsLocal ==
  [][lastOp'.op = "uploadOne.error" /\ lastOp' # lastOp =>
       LET id == lastOp'.arg.item IN
       /\ items'[id].status = "error"
       /\ \A other \in DOMAIN items : other # id => items'[other] = items[other]
       /\ DOMAIN items' = DOMAIN items
       /\ uploads' = uploads
       /\ \E k \in DOMAIN uploadCalls :
            uploadCalls[k].item = id /\ uploadCalls' = Without(uploadCalls, k)
       /\ issued' = issued
       /\ UNCHANGED <<docFetches, healthPending, analyticsPending, deleteCalls,
                      store, documents, totalDocs, totalChunks>>]_vars

\* an upload failed while another one was awaited and a third item was done
C16_Witness ==
  /\ lastOp.op = "uploadOne.error"
  /\ uploadCalls # <<>>
  /\ \E id \in DOMAIN items : items[id].status = "done"
  /\ items[lastOp.arg.item].status = "error"

\* C17 as stated: the message of a failed upload is the detail of the error
\* body if there is one, else the description of the transport error if there
\* is one, else a fixed text, as for a failed chat call
C17_Original ==
  lastOp.op = "uploadOne.error" =>
    LET err == lastOp.arg.err
        msg == items[lastOp.arg.item].msg
    IN  /\ err.detail # Undefined => msg = <<err.detail>>
        /\ err.detail = Undefined /\ err.message # Undefined => msg = <<err.message>>
        /\ err.detail = Undefined /\ err.message = Undefined => msg = <<UploadFallback>>

\* C17: the message of a failed upload is the detail of the error body if there
\* is one and the fixed text 'Upload failed' otherwise; the description of the
\* transport error is not used
C17_UploadErrorText ==
  lastOp.op = "uploadOne.error" =>
    LET err == lastOp.arg.err
        item == items[lastOp.arg.item]
    IN  /\ item.status = "error"
        /\ err.detail # Undefined => item.msg = <<err.detail>>
        /\ err.detail = Undefined => item.msg = <<UploadFallback>>

\* an upload failed with a transport message and no detail
C17_Witness ==
  /\ lastOp.op = "uploadOne.error"
  /\ lastOp.arg.err.detail = Undefined
  /\ lastOp.arg.err.message = "m"
  /\ items[lastOp.arg.item].msg = <<"Upload failed">>

\* the items that have a row in the panel
Rows(list) == {list[k] : k \in DOMAIN list}

\* C18: removeUploadItem takes the chosen row off the panel whatever the state
\* of its item, keeps the other rows and their order, changes no item and
\* issues no call; and no step ever puts an existing item into the panel, so a
\* removed item stays away when its upload is answered later
C18_RemoveUploadItem ==
  [][/\ lastOp'.op = "removeUploadItem" =>
          LET i == lastOp'.arg.i IN
          /\ uploads[i + 1] = lastOp'.arg.item
          /\ uploads' = Without(uploads, i + 1)
          /\ UNCHANGED <<items, uploadCalls, issued, deleteCalls, docFetches,
                         healthPending, analyticsPending, store, documents>>
     /\ \A id \in Rows(uploads') : id \in Rows(uploads) \/ id \notin DOMAIN items]_vars

\* the upload of an item was answered after its row had been removed, while
\* other rows are shown
C18_Witness ==
  /\ lastOp.op = "uploadOne.next"
  /\ lastOp.arg.item \notin Rows(uploads)
  /\ items[lastOp.arg.item].status = "done"
  /\ Len(uploads) = 2

\* what the document panel shows
Listing == <<documents, totalDocs, totalChunks>>

\* C19: deleteDocument changes nothing of the local list by itself: the call
\* only issues the DELETE for the pair, its success only calls the refresh,
\* once, and its failure leaves documents, totalDocs and totalChunks as they
\* are and calls no refresh
C19_NoOptimisticRemoval ==
  [][/\ lastOp'.op = "deleteDocument" =>
          /\ UNCHANGED Listing
          /\ deleteCalls' = Append(deleteCalls, lastOp'.arg)
          /\ Holds(documents, lastOp'.arg.vendor, lastOp'.arg.document)
          /\ UNCHANGED <<docFetches, healthPending, analyticsPending>>
     /\ lastOp'.op = "deleteDocument.next" =>
          /\ UNCHANGED Listing
          /\ Len(docFetches') = Len(docFetches) + 1
          /\ SubSeq(docFetches', 1, Len(docFetches)) = docFetches
          /\ ~docFetches'[Len(docFetches')].served
     /\ lastOp'.op = "deleteDocument.error" =>
          /\ UNCHANGED Listing
          /\ UNCHANGED <<docFetches, healthPending, analyticsPending>>]_vars

\* a deletion failed: the document is still listed and still counted
C19_Witness ==
  /\ lastOp.op = "deleteDocument.error"
  /\ Holds(documents, lastOp.arg.vendor, lastOp.arg.document)
  /\ totalDocs = Len(documents) \/ component = "upload"
  /\ totalChunks > 0

\* C20 as stated: once a document has been deleted and the re-fetch of the
\* deletion has been answered, the local list does not contain its pair,
\* whatever other refreshes are answered before or after
C20_Original ==
  \A p \in refetched : ~Holds(documents, p.vendor, p.document)

\* the file was indexed again: an upload of that name succeeded
IndexedAgain(p) ==
  /\ p.vendor = NoVendor
  /\ \E id \in DOMAIN items : items[id].name = p.document /\ items[id].status = "done"

\* C20: at the moment the re-fetch of a successful deletion is answered, the
\* local list is a list the backend served after the deletion: it does not
\* contain the pair, unless an upload has given the backend the document again
C20_RefetchDropsPair ==
  lastOp.op = "getDocuments.next" /\ lastOp.arg.by = "deleteDocument" =>
    \/ ~Holds(documents, lastOp.arg.vendor, lastOp.arg.document)
    \/ IndexedAgain(PairOf(lastOp.arg))

\* the re-fetch of a deletion has just been answered while another refresh is
\* still awaited, and the list has lost the pair
C20_Witness ==
  /\ lastOp.op = "getDocuments.next"
  /\ lastOp.arg.by = "deleteDocument"
  /\ PairOf(lastOp.arg) \in refetched
  /\ ~Holds(documents, lastOp.arg.vendor, lastOp.arg.document)
  /\ docFetches # <<>>

----------------------------------------------------------------------------
(* C21..C23: the renderer *)

\* how often x stands in the sequence s
Count(s, x) == Cardinality({i \in DOMAIN s : s[i] = x})

Rendered == html # NotRendered

\* C21: in what formatContent returns, no character of the content is one of
\* the five that esc replaces: every one of them stands there as its entity, as
\* often as in the content, and what a tag holds of the content inside its
\* brackets is word characters only; so every raw bracket belongs to a tag that
\* formatContent wrote
C21_Escaped ==
  Rendered =>
    /\ \A i \in DOMAIN html : html[i].k = "ch" => html[i].v \notin DOMAIN Entity
    /\ \A c \in DOMAIN Entity : Count(html, Ent(Entity[c])) = Count(msgContent, c)
    /\ \A i \in DOMAIN html :
         \A j \in DOMAIN html[i].arg : IsWord(html[i].arg[j])

\* a content with brackets and an ampersand was rendered into tags around the
\* entities
C21_Witness ==
  /\ Rendered
  /\ Count(msgContent, "<") > 0 /\ Count(msgContent, ">") > 0
  /\ Count(msgContent, "&") > 0
  /\ \E i \in DOMAIN html : html[i].k = "tag"
  /\ \E i \in DOMAIN html : html[i] = Ent("&lt;")

\* C22: the four replaces that take line breaks out again change nothing when
\* they are applied a second time to what formatContent returns
C22_Original ==
  Rendered => Cleanup(html) = html

\* the backticks of the content stand in fences only: each belongs to a run of
\* exactly three
FencesOnly(t) ==
  \A i \in DOMAIN t : t[i] = BacktickChar =>
    \E lo \in 1..i :
      /\ lo + 2 >= i /\ lo + 2 <= Len(t)
      /\ \A j \in lo..(lo + 2) : t[j] = BacktickChar
      /\ (lo > 1 => t[lo - 1] # BacktickChar)
      /\ (lo + 3 <= Len(t) => t[lo + 3] # BacktickChar)

\* the content holds a fence, and the third replace finds no fence it converts
Malformed(t) ==
  LET h == Headings3(Headings4(Esc(t)))
  IN  /\ \E i \in DOMAIN t : t[i] = BacktickChar
      /\ FencesOnly(t)
      /\ CodeBlocks(h) = h

\* C23: a content whose fences are all malformed or unterminated comes out
\* with every backtick standing as it was, and with neither a block of code nor
\* an inline code element
C23_Original ==
  (Rendered /\ Malformed(msgContent)) =>
    /\ Count(html, Backtick) = Count(msgContent, BacktickChar)
    /\ \A i \in DOMAIN html : html[i].v \notin {PreOpen(<<>>).v, CodeOpen.v}

----------------------------------------------------------------------------
(* C24..C30 *)

\* C24: on the dashboard the list, the count and the chunk total change only
\* in the next handler of one getDocuments call, all three to what that one
\* answer says, and the count is the length of the list in every state
C24_SetTogether ==
  /\ (component = "dashboard" => totalDocs = Len(documents))
  /\ [][component = "dashboard" =>
          /\ totalDocs' = Len(documents')
          /\ (<<documents, totalDocs, totalChunks>>' # <<documents, totalDocs, totalChunks>> =>
                \E k \in DOMAIN docFetches :
                  /\ docFetches[k].served
                  /\ documents' = docFetches[k].body.documents
                  /\ totalDocs' = Len(docFetches[k].body.documents)
                  /\ totalChunks' = docFetches[k].body.total_chunks
                  /\ docFetches' = Without(docFetches, k))]_vars

\* the dashboard took over the answer to the refresh of an upload, which
\* replaced the stored guide, while another refresh was still under way
C24_Witness ==
  /\ component = "dashboard"
  /\ lastOp.op = "getDocuments.next"
  /\ lastOp.arg.by = "uploadOne"
  /\ Len(documents) = 1 /\ totalDocs = 1
  /\ totalChunks = 2
  /\ docFetches # <<>>

\* two letters that differ in case at most
SameLetter(a, b) ==
  \/ a = b
  \/ a \in DOMAIN Lower /\ Lower[a] = b
  \/ b \in DOMAIN Lower /\ Lower[b] = a

\* name stands somewhere in text, whatever the case of its letters
OccursIn(name, text) ==
  \E i \in 0..(Len(text) - Len(name)) :
    \A j \in DOMAIN name : SameLetter(text[i + j], name[j])

Occurring(text) == {i \in DOMAIN KnownVendors : OccursIn(KnownVendors[i], text)}

\* sendMessage has just sent a compare request with the vendor field empty
ComparedByText ==
  /\ lastOp.op = "sendMessage.sent"
  /\ component = "agent" /\ agentMode = "compare"
  /\ lastOp.arg.compareVendors = <<>>

\* C25: with the vendor field empty, the vendors of the compare request are
\* the names of the vocabulary that stand in the text in any case when two or
\* more do, and Cisco and Juniper otherwise; they are two at least
C25_ExtractedVendors ==
  ComparedByText =>
    LET text == accepted[Len(accepted)]
        vendors == inflight[Len(inflight)].body.vendors
        found == Occurring(text)
    IN  /\ Len(vendors) >= 2
        /\ IF Cardinality(found) >= 2
           THEN /\ {vendors[i] : i \in DOMAIN vendors} = {KnownVendors[i] : i \in found}
                /\ Len(vendors) = Cardinality(found)
           ELSE vendors = DefaultVendors

\* a question that names Dell and IBM in other case, and in the other order,
\* was sent with the vendor field empty
C25_Witness ==
  /\ ComparedByText
  /\ accepted[Len(accepted)] = <<"i", "B", "m", "D", "E", "L", "L">>
  /\ inflight[Len(inflight)].body.vendors = <<Dell, IBM>>

\* a question that names one vendor only was sent with the vendor field empty
C25_Witness_Default ==
  /\ ComparedByText
  /\ Occurring(accepted[Len(accepted)]) = {7}
  /\ inflight[Len(inflight)].body.vendors = DefaultVendors

\* C26: every item that is uploading is done or in error in the end, whether
\* or not its row was removed from the list meanwhile, and the only steps that
\* end an upload call are its own next and error handlers
C26_UploadsSettle ==
  /\ \A id \in 1..MaxFilesAwait :
       (id \in DOMAIN items /\ items[id].status = "uploading")
         ~> (id \in DOMAIN items /\ items[id].status \in {"done", "error"})
  /\ [][uploadCalls' # uploadCalls /\ Len(uploadCalls') <= Len(uploadCalls)
          => lastOp'.op \in {"uploadOne.next", "uploadOne.error"}]_vars

\* the upload of an item whose row had been removed while it was uploading
\* has been answered, and the item is done
C26_Witness ==
  /\ lastOp.op = "uploadOne.next"
  /\ items[lastOp.arg.item].status = "done"
  /\ \A i \in DOMAIN uploads : uploads[i] # lastOp.arg.item

\* C27: on the dashboard the in-flight flag is set exactly while one query is
\* outstanding, and there is never a second one, whatever the upload panel and
\* the counters do meanwhile
C27_LoadingIffOutstanding ==
  component = "dashboard" =>
    /\ Len(inflight) <= 1
    /\ isLoading <=> Len(inflight) = 1

\* the chat was cleared and an upload was answered while a query was outstanding
C27_Witness ==
  /\ component = "dashboard"
  /\ lastOp.op = "uploadOne.next"
  /\ isLoading /\ Len(inflight) = 1
  /\ messages = <<>>

\* no submit has been accepted since the last clearChat, or since the start
NewConversation == accepted = <<>>

\* C28 as stated: while no request of the new conversation has been issued, an
\* answer that arrives, which is one to a request from before the clearChat,
\* leaves the session id absent, and the first query or troubleshoot request of
\* the new conversation is sent without a session id
C28_Original ==
  [][/\ (NewConversation /\ AnswersOne) => sessionId' = Undefined
     /\ (NewConversation /\ Issues /\ Issued.endpoint \in {"query", "troubleshoot"})
          => Issued.body.session_id = Undefined]_vars

\* C29 as stated: the transcript of the dashboard holds user and assistant
\* messages in turn, a user message first, so that every assistant message
\* stands right after a user message
C29_Original ==
  component = "dashboard" =>
    \A i \in DOMAIN messages :
      messages[i].role = IF i % 2 = 1 THEN "user" ELSE "assistant"

\* the error handler of a query or troubleshoot call runs in this step
QueryFails ==
  /\ AnswersOne
  /\ lastOp'.op \in {"sendQuery.error", "sendMessage.error", "sendTroubleshoot.error"}

\* C30: the error handler of a query or troubleshoot call appends one assistant
\* message and clears the in-flight flag; the session id,
\* the messages that were there, the input, the mode, the query counter and the
\* upload panel stay as they were
C30_FailureFrame ==
  [][QueryFails =>
       /\ AppendsOne
       /\ messages'[Len(messages')].role = "assistant"
       /\ isLoading' = FALSE
       /\ UNCHANGED <<sessionId, inputText, agentMode, totalQueries, uploadVars>>]_vars

\* a troubleshoot call of a conversation that has a session id has failed
C30_Witness ==
  /\ lastOp.op = "sendTroubleshoot.error"
  /\ sessionId = "S1"
  /\ ~isLoading
  /\ Len(messages) >= 4
  /\ LastMessage.role = "assistant"

============================================================================
